---- MODULE Spec2Model ----
(***************************************************************************)
(* Model of package zcbit (src/bitvec.go): a fixed-capacity bit vector     *)
(* that aliases a caller-supplied byte buffer as 64-bit words and, when    *)
(* the declared byte order differs from the host's, byte-swaps every word  *)
(* before interpreting its bits.                                           *)
(*                                                                         *)
(* A uint64 value is modelled as the set of its 1-bit positions (a subset  *)
(* of 0..63), a byte as a subset of 0..7: the width of a word is kept and  *)
(* every Go bit operator has an exact counterpart on such sets.  The byte  *)
(* buffer is the memory; the vector's word slice is a view of it computed  *)
(* with the host's byte order, as the unsafe slice-header cast makes it.   *)
(***************************************************************************)
EXTENDS Integers, Sequences, FiniteSets

(* ---------------------------------------------------------------------- *)
(* Program constants                                                       *)
(* ---------------------------------------------------------------------- *)
wordBytes == 8

wordSize == 64

log2WordSize == 6

allBits == 0 .. 63

ErrInvalidEndianness == "unsupported endianness"

ErrInvalidLength == "len(buffer) for zcbit must be N * 8"

ErrUnsupportedArch == "unsupported host endianness"

NoErr == "nil"

Nil == [nil |-> TRUE]

(* The Endianness enumeration is declared outside bitvec.go; it has the   *)
(* two recognized values, and any other value of the type is unrecognized. *)
LittleEndian == "LittleEndian"

BigEndian == "BigEndian"

OtherEndian == "OtherEndian"

Endianness == {LittleEndian, BigEndian, OtherEndian}

(* ---------------------------------------------------------------------- *)
(* Bounds of the model                                                     *)
(* ---------------------------------------------------------------------- *)
\* Largest number of whole words in a buffer.
MaxWords == 2

\* Bit offsets inside a word that Set and Clear are called with: a bit
\* inside the second byte (moved to the seventh by a swap) and the highest
\* bit.
WriteOffsets == {9, 63}

\* Bit offsets that Test, FindFirstOne and FindFirstZero are called with:
\* the lowest bit too, which every initial pattern but "zero" sets.
ReadOffsets == {0, 9, 63}

\* Arguments of the calls: the offsets in every word of the largest buffer
\* and in the word past its end.
WriteIndexes == { wordSize * w + o : w \in 0 .. MaxWords, o \in WriteOffsets }

ReadIndexes == { wordSize * w + o : w \in 0 .. MaxWords, o \in ReadOffsets }

\* Buffer lengths in bytes: every whole number of words up to MaxWords,
\* and two lengths that are no multiple of 8.
BufLens == { wordBytes * n : n \in 0 .. MaxWords } \cup {7, 9}

\* Initial byte patterns: all 0x00, all 0xFF, and a pattern in which byte
\* j holds 1 << (j % 8), so that no word equals its own byte reversal.
Patterns == {"zero", "ones", "ramp"}

PatternByte(p, j) ==
    IF p = "zero" THEN {} ELSE IF p = "ones" THEN 0 .. 7 ELSE {j % 8}

MakeBuf(p, n) == [j \in 1 .. n |-> PatternByte(p, j - 1)]

VARIABLES hostEndian, endian, buf, bv, err, call

vars == <<hostEndian, endian, buf, bv, err, call>>

(* ---------------------------------------------------------------------- *)
(* uint64 operators on sets of bit positions                               *)
(* ---------------------------------------------------------------------- *)
Min(S) == CHOOSE x \in S : \A y \in S : x <= y

Max(S) == CHOOSE x \in S : \A y \in S : x >= y

\* n << k on uint64: bits shifted past position 63 are lost.
Shl(n, k) == { p + k : p \in { q \in n : q + k < wordSize } }

\* n >> k on uint64.
Shr(n, k) == { p - k : p \in { q \in n : q >= k } }

\* ^n on uint64.
Not64(n) == allBits \ n

\* The mask 0xFF << (8 * k).
ByteMask(k) == (8 * k) .. (8 * k + 7)

\* bits.TrailingZeros64
TrailingZeros64(v) == IF v = {} THEN 64 ELSE Min(v)

\* bits.LeadingZeros64
LeadingZeros64(v) == IF v = {} THEN 64 ELSE 63 - Max(v)

swapUint64(n) ==
    Shl(n \cap ByteMask(0), 56) \cup Shl(n \cap ByteMask(1), 40) \cup
    Shl(n \cap ByteMask(2), 24) \cup Shl(n \cap ByteMask(3), 8) \cup
    Shr(n \cap ByteMask(4), 8) \cup Shr(n \cap ByteMask(5), 24) \cup
    Shr(n \cap ByteMask(6), 40) \cup Shr(n \cap ByteMask(7), 56)

(* ---------------------------------------------------------------------- *)
(* The word slice as a view of the byte buffer                             *)
(* ---------------------------------------------------------------------- *)
\* Position, counted in bytes from the least significant, that the host
\* gives to the k-th byte in memory of a word.
Lane(h, k) == IF h = LittleEndian THEN k ELSE wordBytes - 1 - k

\* b.vec[idx], read from memory m on host h.
VecAt(h, m, idx) ==
    UNION { { 8 * Lane(h, k) + p : p \in m[wordBytes * idx + k + 1] }
            : k \in 0 .. wordBytes - 1 }

\* b.vec[idx] = w, written to memory m on host h.
VecPut(h, m, idx, w) ==
    [j \in 1 .. Len(m) |->
        IF (j - 1) \div wordBytes = idx
        THEN { p \in 0 .. 7 : 8 * Lane(h, (j - 1) % wordBytes) + p \in w }
        ELSE m[j]]

(* ---------------------------------------------------------------------- *)
(* New                                                                     *)
(* ---------------------------------------------------------------------- *)
\* A *BitVec: the length of its word slice and its swap flag.  The slice's
\* data is the buffer it was made from, which it aliases.
BitVec(n, s) == [len |-> n, swap |-> s]

NewEndianFirst(h, b, e) ==
    IF e # LittleEndian /\ e # BigEndian
    THEN [bv |-> Nil, err |-> ErrInvalidEndianness]
    ELSE IF Len(b) % 8 # 0
    THEN [bv |-> Nil, err |-> ErrInvalidLength]
    ELSE IF h # LittleEndian /\ h # BigEndian
    THEN [bv |-> Nil, err |-> ErrUnsupportedArch]
    ELSE [bv |-> BitVec(Len(b) \div wordBytes, e # h), err |-> NoErr]

\* New(b, endian) on a host whose hostEndian is h.
New(h, b, e) ==
    IF Len(b) % 8 # 0
    THEN [bv |-> Nil, err |-> ErrInvalidLength]
    ELSE IF e # LittleEndian /\ e # BigEndian
    THEN [bv |-> Nil, err |-> ErrInvalidEndianness]
    ELSE IF h # LittleEndian /\ h # BigEndian
    THEN [bv |-> Nil, err |-> ErrUnsupportedArch]
    ELSE [bv |-> BitVec(Len(b) \div wordBytes, e # h), err |-> NoErr]

(* ---------------------------------------------------------------------- *)
(* Test, Set, Clear                                                        *)
(* ---------------------------------------------------------------------- *)
\* i >> log2WordSize
WordIndex(i) == i \div (2 ^ log2WordSize)

\* 1 << (i & (wordSize - 1))
BitMask(i) == {i % wordSize}

TestNoSwap(h, m, b, i) ==
    LET idx == WordIndex(i) IN
    IF idx >= b.len THEN FALSE
    ELSE (VecAt(h, m, idx) \cap BitMask(i)) # {}

\* b.Test(i)
Test(h, m, b, i) ==
    LET idx == WordIndex(i) IN
    IF idx >= b.len THEN FALSE
    ELSE IF b.swap
    THEN LET v == swapUint64(VecAt(h, m, idx)) IN (v \cap BitMask(i)) # {}
    ELSE (VecAt(h, m, idx) \cap BitMask(i)) # {}

SetNoSwapBack(h, m, b, i) ==
    LET idx == WordIndex(i) IN
    IF idx >= b.len THEN [mem |-> m, ret |-> FALSE]
    ELSE IF b.swap
    THEN LET v == swapUint64(VecAt(h, m, idx)) \cup BitMask(i)
         IN  [mem |-> VecPut(h, m, idx, v), ret |-> TRUE]
    ELSE [mem |-> VecPut(h, m, idx, VecAt(h, m, idx) \cup BitMask(i)),
          ret |-> TRUE]

SetOutOfRangeTrue(h, m, b, i) ==
    LET idx == WordIndex(i) IN
    IF idx >= b.len THEN [mem |-> m, ret |-> TRUE]
    ELSE IF b.swap
    THEN LET v == swapUint64(VecAt(h, m, idx)) \cup BitMask(i)
         IN  [mem |-> VecPut(h, m, idx, swapUint64(v)), ret |-> TRUE]
    ELSE [mem |-> VecPut(h, m, idx, VecAt(h, m, idx) \cup BitMask(i)),
          ret |-> TRUE]

\* b.Set(i): the memory after the call and the value returned.
Set(h, m, b, i) ==
    LET idx == WordIndex(i) IN
    IF idx >= b.len THEN [mem |-> m, ret |-> FALSE]
    ELSE IF b.swap
    THEN LET v == swapUint64(VecAt(h, m, idx)) \cup BitMask(i)
         IN  [mem |-> VecPut(h, m, idx, swapUint64(v)), ret |-> TRUE]
    ELSE [mem |-> VecPut(h, m, idx, VecAt(h, m, idx) \cup BitMask(i)),
          ret |-> TRUE]

ClearAndMask(h, m, b, i) ==
    LET idx == WordIndex(i) IN
    IF idx >= b.len THEN [mem |-> m, ret |-> FALSE]
    ELSE IF b.swap
    THEN LET v == swapUint64(VecAt(h, m, idx)) \cap BitMask(i)
         IN  [mem |-> VecPut(h, m, idx, swapUint64(v)), ret |-> TRUE]
    ELSE [mem |-> VecPut(h, m, idx, VecAt(h, m, idx) \cap BitMask(i)),
          ret |-> TRUE]

\* b.Clear(i): the memory after the call and the value returned.
Clear(h, m, b, i) ==
    LET idx == WordIndex(i) IN
    IF idx >= b.len THEN [mem |-> m, ret |-> FALSE]
    ELSE IF b.swap
    THEN LET v == swapUint64(VecAt(h, m, idx)) \ BitMask(i)
         IN  [mem |-> VecPut(h, m, idx, swapUint64(v)), ret |-> TRUE]
    ELSE [mem |-> VecPut(h, m, idx, VecAt(h, m, idx) \ BitMask(i)),
          ret |-> TRUE]

(* ---------------------------------------------------------------------- *)
(* FindFirstOne                                                            *)
(* ---------------------------------------------------------------------- *)
Found(k) == [idx |-> k, ok |-> TRUE]

NotFound == [idx |-> 0, ok |-> FALSE]

\* "for idx++; idx < len(b.vec); idx++" of the swapped branch, entered
\* with the incremented idx.
RECURSIVE ScanOneSwapped(_, _, _, _)
ScanOneSwapped(h, m, b, idx) ==
    IF idx >= b.len THEN NotFound
    ELSE IF VecAt(h, m, idx) # {}
    THEN Found(idx * wordSize + TrailingZeros64(swapUint64(VecAt(h, m, idx))))
    ELSE ScanOneSwapped(h, m, b, idx + 1)

\* The same loop of the native branch.
RECURSIVE ScanOneNative(_, _, _, _)
ScanOneNative(h, m, b, idx) ==
    IF idx >= b.len THEN NotFound
    ELSE IF VecAt(h, m, idx) # {}
    THEN Found(idx * wordSize + TrailingZeros64(VecAt(h, m, idx)))
    ELSE ScanOneNative(h, m, b, idx + 1)

FindFirstOneNoShift(h, m, b, i) ==
    LET idx == WordIndex(i) IN
    IF idx >= b.len THEN NotFound
    ELSE IF b.swap
    THEN LET v == swapUint64(VecAt(h, m, idx))
         IN  IF v # {} THEN Found(i + TrailingZeros64(v))
             ELSE ScanOneSwapped(h, m, b, idx + 1)
    ELSE LET v == VecAt(h, m, idx)
         IN  IF v # {} THEN Found(i + TrailingZeros64(v))
             ELSE ScanOneNative(h, m, b, idx + 1)

FindFirstOneRawScan(h, m, b, i) ==
    LET idx == WordIndex(i) IN
    IF idx >= b.len THEN NotFound
    ELSE IF b.swap
    THEN LET v == Shr(swapUint64(VecAt(h, m, idx)), i % wordSize)
         IN  IF v # {} THEN Found(i + TrailingZeros64(v))
             ELSE ScanOneNative(h, m, b, idx + 1)
    ELSE LET v == Shr(VecAt(h, m, idx), i % wordSize)
         IN  IF v # {} THEN Found(i + TrailingZeros64(v))
             ELSE ScanOneNative(h, m, b, idx + 1)

\* b.FindFirstOne(i)
FindFirstOne(h, m, b, i) ==
    LET idx == WordIndex(i) IN
    IF idx >= b.len THEN NotFound
    ELSE IF b.swap
    THEN LET v == Shr(swapUint64(VecAt(h, m, idx)), i % wordSize)
         IN  IF v # {} THEN Found(i + TrailingZeros64(v))
             ELSE ScanOneSwapped(h, m, b, idx + 1)
    ELSE LET v == Shr(VecAt(h, m, idx), i % wordSize)
         IN  IF v # {} THEN Found(i + TrailingZeros64(v))
             ELSE ScanOneNative(h, m, b, idx + 1)

(* ---------------------------------------------------------------------- *)
(* FindFirstZero                                                           *)
(* ---------------------------------------------------------------------- *)
RECURSIVE ScanZeroSwapped(_, _, _, _)
ScanZeroSwapped(h, m, b, idx) ==
    IF idx >= b.len THEN NotFound
    ELSE IF VecAt(h, m, idx) # allBits
    THEN Found(idx * wordSize
               + TrailingZeros64(Not64(swapUint64(VecAt(h, m, idx)))))
    ELSE ScanZeroSwapped(h, m, b, idx + 1)

RECURSIVE ScanZeroNative(_, _, _, _)
ScanZeroNative(h, m, b, idx) ==
    IF idx >= b.len THEN NotFound
    ELSE IF VecAt(h, m, idx) # allBits
    THEN Found(idx * wordSize + TrailingZeros64(Not64(VecAt(h, m, idx))))
    ELSE ScanZeroNative(h, m, b, idx + 1)

FindFirstZeroNoTail(h, m, b, i) ==
    LET idx    == WordIndex(i)
        offset == i % wordSize
    IN
    IF idx >= b.len THEN NotFound
    ELSE IF b.swap
    THEN LET v     == Shr(swapUint64(VecAt(h, m, idx)), offset)
             trail == TrailingZeros64(Not64(v))
         IN  IF trail < wordSize THEN Found(i + trail)
             ELSE ScanZeroSwapped(h, m, b, idx + 1)
    ELSE LET v     == Shr(VecAt(h, m, idx), offset)
             trail == TrailingZeros64(Not64(v))
         IN  IF trail < wordSize THEN Found(i + trail)
             ELSE ScanZeroNative(h, m, b, idx + 1)

FindFirstZeroOneWord(h, m, b, i) ==
    LET idx    == WordIndex(i)
        offset == i % wordSize
    IN
    IF idx >= b.len THEN NotFound
    ELSE IF b.swap
    THEN LET v     == Shr(swapUint64(VecAt(h, m, idx)), offset)
             trail == TrailingZeros64(Not64(v))
         IN  IF trail < wordSize - offset THEN Found(i + trail)
             ELSE NotFound
    ELSE LET v     == Shr(VecAt(h, m, idx), offset)
             trail == TrailingZeros64(Not64(v))
         IN  IF trail < wordSize - offset THEN Found(i + trail)
             ELSE NotFound

\* b.FindFirstZero(i)
FindFirstZero(h, m, b, i) ==
    LET idx    == WordIndex(i)
        offset == i % wordSize
    IN
    IF idx >= b.len THEN NotFound
    ELSE IF b.swap
    THEN LET v     == Shr(swapUint64(VecAt(h, m, idx)), offset)
             trail == TrailingZeros64(Not64(v))
         IN  IF trail < wordSize - offset THEN Found(i + trail)
             ELSE ScanZeroSwapped(h, m, b, idx + 1)
    ELSE LET v     == Shr(VecAt(h, m, idx), offset)
             trail == TrailingZeros64(Not64(v))
         IN  IF trail < wordSize - offset THEN Found(i + trail)
             ELSE ScanZeroNative(h, m, b, idx + 1)

(* ---------------------------------------------------------------------- *)
(* FindLastOne                                                             *)
(* ---------------------------------------------------------------------- *)
\* "for i := len(b.vec); i > 0; i--" of the swapped branch.
RECURSIVE ScanLastSwapped(_, _, _, _)
ScanLastSwapped(h, m, b, i) ==
    IF ~(i > 0) THEN NotFound
    ELSE LET v == VecAt(h, m, i - 1)
         IN  IF v # {}
             THEN Found(i * wordSize - LeadingZeros64(swapUint64(v)) - 1)
             ELSE ScanLastSwapped(h, m, b, i - 1)

\* The same loop of the native branch.
RECURSIVE ScanLastNative(_, _, _, _)
ScanLastNative(h, m, b, i) ==
    IF ~(i > 0) THEN NotFound
    ELSE LET v == VecAt(h, m, i - 1)
         IN  IF v # {}
             THEN Found(i * wordSize - LeadingZeros64(v) - 1)
             ELSE ScanLastNative(h, m, b, i - 1)

FindLastOneTopWord(h, m, b) ==
    IF b.len > 0 /\ VecAt(h, m, b.len - 1) = {} THEN NotFound
    ELSE IF b.swap THEN ScanLastSwapped(h, m, b, b.len)
    ELSE ScanLastNative(h, m, b, b.len)

\* b.FindLastOne()
FindLastOne(h, m, b) ==
    IF b.swap THEN ScanLastSwapped(h, m, b, b.len)
    ELSE ScanLastNative(h, m, b, b.len)

(* ---------------------------------------------------------------------- *)
(* State machine: a caller owning the buffers makes one call at a time.    *)
(* Every call is made on each vector of the state; Spec has one vector,    *)
(* SpecPair two that start as byte-swapped copies of each other.           *)
(*   hostEndian  the host's byte order (fixed)                             *)
(*   endian[v]   the byte order declared for vector v                      *)
(*   buf[v]      the bytes of the buffer vector v aliases                  *)
(*   bv[v]       the *BitVec New returned, or Nil                          *)
(*   err[v]      the error New returned                                    *)
(*   call        the call whose results the caller holds: its name,        *)
(*               argument and results; Idle between two calls              *)
(* ---------------------------------------------------------------------- *)
Vecs == DOMAIN buf

NoCall == [op |-> "none", arg |-> 0, ret |-> <<>>]

Init ==
    /\ hostEndian \in Endianness
    /\ \E e \in Endianness : endian = <<e>>
    /\ \E n \in BufLens, p \in Patterns : buf = <<MakeBuf(p, n)>>
    /\ bv = <<Nil>>
    /\ err = <<NoErr>>
    /\ call = NoCall

\* The buffer whose every 8-byte word is the byte reversal of b's.
SwapCopy(b) ==
    [j \in 1 .. Len(b) |->
        b[wordBytes * ((j - 1) \div wordBytes)
          + (wordBytes - 1 - ((j - 1) % wordBytes)) + 1]]

InitPair ==
    /\ hostEndian \in {LittleEndian, BigEndian}
    /\ endian = <<LittleEndian, BigEndian>>
    /\ \E n \in 0 .. MaxWords, p \in Patterns :
          buf = <<MakeBuf(p, wordBytes * n),
                  SwapCopy(MakeBuf(p, wordBytes * n))>>
    /\ bv = <<Nil, Nil>>
    /\ err = <<NoErr, NoErr>>
    /\ call = NoCall

Idle == [op |-> "idle", arg |-> 0, ret |-> <<>>]

\* The caller holds a vector from every New and is between two calls.
Constructed == call = Idle /\ \A v \in Vecs : bv[v] # Nil

CallNew ==
    /\ call.op = "none"
    /\ LET r == [v \in Vecs |-> New(hostEndian, buf[v], endian[v])]
       IN  /\ bv' = [v \in Vecs |-> r[v].bv]
           /\ err' = [v \in Vecs |-> r[v].err]
           /\ call' = [op |-> "New", arg |-> 0,
                       ret |-> [v \in Vecs |-> r[v].err]]
    /\ UNCHANGED <<hostEndian, endian, buf>>

CallTest(i) ==
    /\ Constructed
    /\ call' = [op |-> "Test", arg |-> i,
                ret |-> [v \in Vecs |-> Test(hostEndian, buf[v], bv[v], i)]]
    /\ UNCHANGED <<hostEndian, endian, buf, bv, err>>

CallSet(i) ==
    /\ Constructed
    /\ LET r == [v \in Vecs |-> Set(hostEndian, buf[v], bv[v], i)]
       IN  /\ buf' = [v \in Vecs |-> r[v].mem]
           /\ call' = [op |-> "Set", arg |-> i,
                       ret |-> [v \in Vecs |-> r[v].ret]]
    /\ UNCHANGED <<hostEndian, endian, bv, err>>

CallClear(i) ==
    /\ Constructed
    /\ LET r == [v \in Vecs |-> Clear(hostEndian, buf[v], bv[v], i)]
       IN  /\ buf' = [v \in Vecs |-> r[v].mem]
           /\ call' = [op |-> "Clear", arg |-> i,
                       ret |-> [v \in Vecs |-> r[v].ret]]
    /\ UNCHANGED <<hostEndian, endian, bv, err>>

CallFindFirstOne(i) ==
    /\ Constructed
    /\ call' = [op |-> "FindFirstOne", arg |-> i,
                ret |-> [v \in Vecs |->
                            FindFirstOne(hostEndian, buf[v], bv[v], i)]]
    /\ UNCHANGED <<hostEndian, endian, buf, bv, err>>

CallFindFirstZero(i) ==
    /\ Constructed
    /\ call' = [op |-> "FindFirstZero", arg |-> i,
                ret |-> [v \in Vecs |->
                            FindFirstZero(hostEndian, buf[v], bv[v], i)]]
    /\ UNCHANGED <<hostEndian, endian, buf, bv, err>>

CallFindLastOne ==
    /\ Constructed
    /\ call' = [op |-> "FindLastOne", arg |-> 0,
                ret |-> [v \in Vecs |-> FindLastOne(hostEndian, buf[v], bv[v])]]
    /\ UNCHANGED <<hostEndian, endian, buf, bv, err>>

\* The caller has read the results of its call.
Return ==
    /\ call.op \notin {"none", "idle"}
    /\ call' = Idle
    /\ UNCHANGED <<hostEndian, endian, buf, bv, err>>

Next ==
    \/ CallNew
    \/ \E i \in ReadIndexes : CallTest(i)
    \/ \E i \in WriteIndexes : CallSet(i)
    \/ \E i \in WriteIndexes : CallClear(i)
    \/ \E i \in ReadIndexes : CallFindFirstOne(i)
    \/ \E i \in ReadIndexes : CallFindFirstZero(i)
    \/ CallFindLastOne
    \/ Return

Spec == Init /\ [][Next]_vars

SpecPair == InitPair /\ [][Next]_vars

(* ---------------------------------------------------------------------- *)
(* Properties                                                              *)
(* ---------------------------------------------------------------------- *)
\* The vector's fixed bit capacity.
Capacity(b) == b.len * wordSize

InRange(b, i) == WordIndex(i) < b.len

\* The indexes k with from <= k < capacity at which Test answers t.
TestedFrom(v, from, t) ==
    { k \in from .. Capacity(bv[v]) - 1 :
        Test(hostEndian, buf[v], bv[v], k) = t }

\* C1: round trip.  When Set(i) or Clear(i) has just been called with i
\* inside the capacity, it returned true and Test(i) on the state it left
\* answers true after Set and false after Clear, for either value of swap.
C1_RoundTrip ==
    \A v \in Vecs :
        /\ (call.op = "Set" /\ InRange(bv[v], call.arg)) =>
              /\ call.ret[v] = TRUE
              /\ Test(hostEndian, buf[v], bv[v], call.arg) = TRUE
        /\ (call.op = "Clear" /\ InRange(bv[v], call.arg)) =>
              /\ call.ret[v] = TRUE
              /\ Test(hostEndian, buf[v], bv[v], call.arg) = FALSE

\* Set(73) was called on a swapped two-word vector and Test(73) is true.
C1_Witness ==
    /\ call.op = "Set" /\ call.arg = 73
    /\ bv[1].swap /\ bv[1].len = 2
    /\ call.ret[1] = TRUE
    /\ Test(hostEndian, buf[1], bv[1], 73)

\* C2: out-of-range access fails softly.  A call of Test, Set or Clear
\* with an index whose word index is >= the word count returns false and
\* changes neither the buffer, nor the vector, nor any error value.
C2_OutOfRangeSoft ==
    [][\A v \in Vecs :
          (/\ call'.op \in {"Test", "Set", "Clear"}
           /\ call.op = "idle"
           /\ ~InRange(bv[v], call'.arg)) =>
             /\ call'.ret[v] = FALSE
             /\ buf'[v] = buf[v]
             /\ bv'[v] = bv[v]
             /\ err'[v] = err[v]]_vars

\* Set was called past the end of a non-empty buffer that holds 1-bits.
C2_Witness ==
    /\ call.op = "Set"
    /\ bv[1].len = 1 /\ call.arg = 73
    /\ call.ret[1] = FALSE
    /\ buf[1] # MakeBuf("zero", 8)

\* C3: FindFirstOne(from) returns the smallest index k, from <= k <
\* capacity, with Test(k) true, and is not found exactly when there is none.
C3_FindFirstOneExact ==
    call.op = "FindFirstOne" =>
        \A v \in Vecs :
            LET S == TestedFrom(v, call.arg, TRUE) IN
            IF S = {} THEN call.ret[v].ok = FALSE
            ELSE call.ret[v] = Found(Min(S))

\* FindFirstOne was called from word 0 of a swapped vector and found its
\* bit in word 1.
C3_Witness ==
    /\ call.op = "FindFirstOne" /\ call.arg = 9
    /\ bv[1].swap /\ bv[1].len = 2
    /\ call.ret[1] = Found(73)

\* C4: FindFirstZero(from) returns the smallest index k, from <= k <
\* capacity, with Test(k) false, is not found when there is none, and
\* never returns an index >= capacity.
C4_FindFirstZeroExact ==
    call.op = "FindFirstZero" =>
        \A v \in Vecs :
            LET S == TestedFrom(v, call.arg, FALSE) IN
            /\ IF S = {} THEN call.ret[v].ok = FALSE
               ELSE call.ret[v] = Found(Min(S))
            /\ call.ret[v].ok => call.ret[v].idx < Capacity(bv[v])

\* FindFirstZero was called at offset 9 of a word whose bits 9..63 are all
\* set, and found the first clear bit in the next word, above bit 64.
C4_Witness ==
    /\ call.op = "FindFirstZero" /\ call.arg = 9
    /\ bv[1].swap /\ bv[1].len = 2
    /\ call.ret[1].ok /\ call.ret[1].idx > 64

\* FindFirstZero(0) on a buffer of 1-bits only: not found.
C4_WitnessAllOnes ==
    /\ call.op = "FindFirstZero" /\ call.arg = 0
    /\ bv[1].len = 2 /\ buf[1] = MakeBuf("ones", 16)
    /\ call.ret[1] = NotFound

\* C5: FindLastOne() returns the largest index k < capacity with Test(k)
\* true, and is not found exactly when every word is zero.
C5_FindLastOneExact ==
    call.op = "FindLastOne" =>
        \A v \in Vecs :
            LET S == TestedFrom(v, 0, TRUE) IN
            /\ IF S = {} THEN call.ret[v].ok = FALSE
               ELSE call.ret[v] = Found(Max(S))
            /\ call.ret[v].ok = FALSE <=>
                  \A j \in 1 .. Len(buf[v]) : buf[v][j] = {}
            /\ S = {Capacity(bv[v]) - 1} =>
                  call.ret[v] = Found(Capacity(bv[v]) - 1)

\* FindLastOne on a swapped vector whose last word is zero: the answer is
\* in word 0.
C5_Witness ==
    /\ call.op = "FindLastOne"
    /\ bv[1].swap /\ bv[1].len = 2
    /\ call.ret[1] = Found(9)

\* C7: New checks the length, then the declared endianness, then the
\* host's, and the first failing check decides the error; it returns no
\* vector on failure and succeeds exactly when all three checks pass, with
\* len(b) / 8 words and swap = (endian # hostEndian).
C7_NewValidationOrder ==
    call.op = "New" =>
        \A v \in Vecs :
            LET badLen    == Len(buf[v]) % 8 # 0
                badEndian == endian[v] \notin {LittleEndian, BigEndian}
                badHost   == hostEndian \notin {LittleEndian, BigEndian}
            IN
            /\ badLen => err[v] = ErrInvalidLength
            /\ (~badLen /\ badEndian) => err[v] = ErrInvalidEndianness
            /\ (~badLen /\ ~badEndian /\ badHost) =>
                  err[v] = ErrUnsupportedArch
            /\ err[v] # NoErr => bv[v] = Nil
            /\ err[v] = NoErr <=> (~badLen /\ ~badEndian /\ ~badHost)
            /\ err[v] = NoErr =>
                  /\ bv[v].len * 8 = Len(buf[v])
                  /\ bv[v].swap = (endian[v] # hostEndian)

\* New failed on a 7-byte buffer although both endianness values are
\* unrecognized too.
C7_Witness ==
    /\ call.op = "New"
    /\ Len(buf[1]) = 7
    /\ endian[1] = OtherEndian /\ hostEndian = OtherEndian
    /\ err[1] = ErrInvalidLength

\* The buffer whose every byte is the bitwise complement of m's.
ComplementBuf(m) == [j \in 1 .. Len(m) |-> (0 .. 7) \ m[j]]

\* C8: FindFirstZero(from) returns what FindFirstOne(from) returns on the
\* vector whose every word is the bitwise complement.
C8_ZeroIsOneOfComplement ==
    call.op = "FindFirstZero" =>
        \A v \in Vecs :
            call.ret[v] =
                FindFirstOne(hostEndian, ComplementBuf(buf[v]), bv[v], call.arg)

\* FindFirstZero found a clear bit of a later word of a swapped vector.
C8_Witness ==
    /\ call.op = "FindFirstZero" /\ call.arg = 63
    /\ bv[1].swap /\ bv[1].len = 2
    /\ call.ret[1] = Found(73)

\* C6: endianness symmetry.  Two vectors made by New over buffers that
\* are byte-swapped copies of each other, one declared little-endian and
\* the other big-endian, answer Test(i) alike for every i, inside the
\* capacity and past it; so do the Test calls made on both later.
C6_EndiannessSymmetry ==
    /\ (/\ call.op = "New"
        /\ buf[2] = SwapCopy(buf[1])
        /\ endian[1] = LittleEndian /\ endian[2] = BigEndian) =>
           \A i \in 0 .. Capacity(bv[1]) + wordSize - 1 :
               Test(hostEndian, buf[1], bv[1], i)
                   = Test(hostEndian, buf[2], bv[2], i)
    /\ call.op = "Test" => call.ret[1] = call.ret[2]

\* New has made both vectors over two different buffers, and bit 9, held
\* by the second byte of one buffer and the seventh of the other, tests
\* true on both.
C6_Witness ==
    /\ call.op = "New"
    /\ bv[1].len = 2 /\ bv[2].len = 2
    /\ buf[2] = SwapCopy(buf[1]) /\ buf[2] # buf[1]
    /\ Test(hostEndian, buf[1], bv[1], 9)
    /\ Test(hostEndian, buf[2], bv[2], 9)
    /\ ~Test(hostEndian, buf[1], bv[1], 10)

\* C9: the native and the swapped code paths agree.  Of two vectors, one
\* native and one swapped, whose buffers start as byte-swapped copies of
\* each other, the buffers stay byte-swapped copies of each other under
\* the same Set and Clear calls, and FindFirstOne, FindFirstZero and
\* FindLastOne return the same results on both.
C9_PathsAgree ==
    /\ buf[2] = SwapCopy(buf[1])
    /\ call.op \in {"FindFirstOne", "FindFirstZero", "FindLastOne"} =>
          /\ bv[1].swap # bv[2].swap
          /\ call.ret[1] = call.ret[2]

\* After mutations, FindFirstZero called at offset 9 of word 0 passed an
\* all-ones rest of the word and found bit 73 on both vectors.
C9_Witness ==
    /\ call.op = "FindFirstZero" /\ call.arg = 9
    /\ bv[1].swap # bv[2].swap
    /\ buf[1] # buf[2]
    /\ call.ret[1] = Found(73) /\ call.ret[2] = Found(73)

\* C10: frame of an in-range mutation.  Set(i) and Clear(i) with i inside
\* the capacity leave the vector's word count and swap flag and every byte
\* of every other word as they were, and Test(j) for every j # i: for
\* every j of the word of i, and in the other words, whose bytes do not
\* change, for every j of ReadIndexes; and when bit i already has the value
\* asked for, the buffer is left identical.
C10_MutationFrame ==
    [][\A v \in Vecs :
          (/\ call'.op \in {"Set", "Clear"}
           /\ call.op = "idle"
           /\ InRange(bv[v], call'.arg)) =>
             LET i   == call'.arg
                 idx == WordIndex(i)
                 J   == (wordSize * idx .. wordSize * idx + wordSize - 1)
                        \cup { j \in ReadIndexes : InRange(bv[v], j) }
             IN
             /\ bv'[v] = bv[v]
             /\ Len(buf'[v]) = Len(buf[v])
             /\ \A j \in 1 .. Len(buf[v]) :
                   (j - 1) \div wordBytes # idx => buf'[v][j] = buf[v][j]
             /\ \A j \in J \ {i} :
                   Test(hostEndian, buf'[v], bv'[v], j)
                       = Test(hostEndian, buf[v], bv[v], j)
             /\ Test(hostEndian, buf[v], bv[v], i) = (call'.op = "Set") =>
                   buf'[v] = buf[v]]_vars

\* Clear(9) was called on a swapped two-word vector in which bit 63 of
\* the same word and bit 64 of the other word are set.
C10_Witness ==
    /\ call.op = "Clear" /\ call.arg = 9
    /\ bv[1].swap /\ bv[1].len = 2
    /\ ~Test(hostEndian, buf[1], bv[1], 9)
    /\ Test(hostEndian, buf[1], bv[1], 63)
    /\ Test(hostEndian, buf[1], bv[1], 64)

====
